---- MODULE Spec2Model ----
(***************************************************************************)
(* A model of obj_to_mesh (src/src/main.rs): layout negotiation, vertex    *)
(* welding, bounding box, tangent pass, index-width selection, the         *)
(* normalized packer and the top-level conversion of a parsed document.    *)
(*                                                                         *)
(* Four specifications share the variables:                                *)
(*   Spec       one object through Mesh::from_object and convert_obj, one  *)
(*              add_index call per step;                                   *)
(*   SpecDoc    a parsed document through convert_obj_set and main's       *)
(*              write, one object per step;                                *)
(*   SpecPack   pack_i2_10_10_10 / pack_normalized on one vector;          *)
(*   SpecWidth  get_index_size and the index block of convert_obj for a    *)
(*              mesh with a given number of vertices.                      *)
(***************************************************************************)
EXTENDS Integers, Sequences, FiniteSets, TLC

\* ------------------------------------------------------------------ bounds

\* Shapes per object.
MaxShapes == 2
\* Objects per document (SpecDoc).
MaxObjects == 2
\* Components fed to the packer are k / PackDen for k in -PackNum..PackNum.
PackDen == 2
PackNum == 4
\* Largest vertex count of SpecWidth.
MaxVertexCount == 65537

\* ----------------------------------------------------------------- options

\* Rust's Option<T>: None is the empty tuple, Some(x) the one-element tuple.
None == <<>>
Some(x) == <<x>>
is_some(o) == o /= <<>>
unwrap(o) == o[1]

SeqsUpTo(S, n) == UNION {[1..m -> S] : m \in 0..n}

\* ------------------------------------------------------------------ inputs

\* The arrays of the parsed object (wavefront_obj::obj::Object); indices of
\* the source are 0-based, the tables are read at index + 1.
ObjVertices == << <<0, 2, -1>>, <<1, -1, 0>> >>
ObjTexVertices == << <<0, 0>>, <<1, 0>> >>
ObjNormals == << <<0, 0, 1>> >>

\* VTNIndex = (position index, Option<texcoord index>, Option<normal index>).
\* One corner supplies everything, one lacks the normal, one lacks the
\* texcoord; the last two share a position.
Corners ==
    { <<0, Some(0), Some(0)>>,
      <<1, Some(1), None>>,
      <<1, None,    Some(0)>> }

\* Shape::Triangle(v1, v2, v3), or another primitive (Shape::Point,
\* Shape::Line), whose corners the program never reads.
Triangle(v1, v2, v3) == [kind |-> "Triangle", v |-> <<v1, v2, v3>>]
OtherShape == [kind |-> "Line", v |-> <<>>]

Shapes ==
    {Triangle(c[1], c[2], c[3]) : c \in Corners \X Corners \X Corners}
        \cup {OtherShape}

\* An object: its arrays and its shapes, in the order the nested loops over
\* obj.geometry and geo.shapes visit them.
Object(shapes) ==
    [vertices |-> ObjVertices, tex_vertices |-> ObjTexVertices,
     normals |-> ObjNormals, geometry |-> shapes]

\* ------------------------------------------------------- layout negotiation

size_of_attribute(attr) ==
    CASE attr = "Position" -> 12
      [] attr = "Normal" -> 4
      [] attr = "Tangent" -> 4
      [] attr = "Tex0" -> 4

has_attribute(vtni, attr) ==
    CASE attr = "Position" -> TRUE
      [] attr = "Normal" -> is_some(vtni[3])
      [] attr = "Tex0" -> is_some(vtni[2])
      [] OTHER -> FALSE

\* The scan of has_all from shape i on: "true", "false", or "panic" at the
\* first shape that is no triangle (the scan returns at the first corner
\* that lacks the attribute and never sees the shapes after it).
RECURSIVE has_all_from(_, _, _)
has_all_from(shapes, i, attr) ==
    IF i > Len(shapes) THEN "true"
    ELSE IF shapes[i].kind /= "Triangle" THEN "panic"
    ELSE IF \/ ~has_attribute(shapes[i].v[1], attr)
            \/ ~has_attribute(shapes[i].v[2], attr)
            \/ ~has_attribute(shapes[i].v[3], attr) THEN "false"
    ELSE has_all_from(shapes, i + 1, attr)

\* has_all testing only the first corner of each triangle.
RECURSIVE has_all_first_corner_from(_, _, _)
has_all_first_corner_from(shapes, i, attr) ==
    IF i > Len(shapes) THEN "true"
    ELSE IF shapes[i].kind /= "Triangle" THEN "panic"
    ELSE IF ~has_attribute(shapes[i].v[1], attr) THEN "false"
    ELSE has_all_first_corner_from(shapes, i + 1, attr)
has_all_first_corner(obj, attr) == has_all_first_corner_from(obj.geometry, 1, attr)

has_all(obj, attr) == has_all_from(obj.geometry, 1, attr)

\* get_offset: the Option it returns and the advanced running offset.
get_offset(obj, attr, offset) ==
    LET all == has_all(obj, attr) IN
    [panic |-> all = "panic",
     value |-> IF all = "true" THEN Some(offset) ELSE None,
     offset |-> IF all = "true" THEN offset + size_of_attribute(attr) ELSE offset]

\* VertexFieldOffsets::from_object; the fields are evaluated in the order
\* written: normal, tangent, tex0.
VertexFieldOffsets_from_object(obj, with_tangent) ==
    LET offset0 == size_of_attribute("Position")
        n == get_offset(obj, "Normal", offset0)
        offset1 == IF with_tangent
                   THEN n.offset + size_of_attribute("Tangent") ELSE n.offset
        t == get_offset(obj, "Tex0", offset1)
    IN  [panic |-> n.panic \/ t.panic,
         normal |-> n.value,
         tangent |-> IF with_tangent THEN Some(n.offset) ELSE None,
         tex0 |-> t.value]

NoFormat == [panic |-> FALSE, normal |-> None, tangent |-> None, tex0 |-> None]

\* ---------------------------------------------------------------- welding

\* f64::MAX; f64::MIN is its negation. Every position of the model lies
\* strictly between the two.
F64_MAX == 1000000
F64_MIN == -F64_MAX

GPUVertex_from_vtni_and_obj(vtni, obj, format) ==
    [pos |-> obj.vertices[vtni[1] + 1],
     normal |-> IF is_some(vtni[3]) /\ is_some(format.normal)
                THEN Some(obj.normals[unwrap(vtni[3]) + 1]) ELSE None,
     tangent |-> None,
     tex |-> IF is_some(vtni[2]) /\ is_some(format.tex0)
             THEN Some(obj.tex_vertices[unwrap(vtni[2]) + 1]) ELSE None]

\* flt_min with the comparison reversed.
flt_min_reversed(a, b) == IF a > b THEN a ELSE b

flt_min(a, b) == IF a < b THEN a ELSE b
flt_max(a, b) == IF a > b THEN a ELSE b
vert_min(a, b) == <<flt_min(a[1], b[1]), flt_min(a[2], b[2]), flt_min(a[3], b[3])>>
vert_max(a, b) == <<flt_max(a[1], b[1]), flt_max(a[2], b[2]), flt_max(a[3], b[3])>>

\* The mesh as Mesh::from_object constructs it.
NewMesh(format) ==
    [vertices |-> <<>>, indices |-> <<>>, map |-> [t \in {} |-> 0],
     min |-> <<F64_MAX, F64_MAX, F64_MAX>>,
     max |-> <<F64_MIN, F64_MIN, F64_MIN>>,
     format |-> format]

\* create_vertex putting the new vertex in front of the list.
create_vertex_front(mesh, vtni, obj) ==
    LET v == GPUVertex_from_vtni_and_obj(vtni, obj, mesh.format) IN
    [mesh EXCEPT !.min = vert_min(mesh.min, v.pos),
                 !.max = vert_max(mesh.max, v.pos),
                 !.vertices = <<v>> \o mesh.vertices]

\* create_vertex: the mesh after the push; the index it returns is the
\* length of the vertex list before the push.
create_vertex(mesh, vtni, obj) ==
    LET v == GPUVertex_from_vtni_and_obj(vtni, obj, mesh.format) IN
    [mesh EXCEPT !.min = vert_min(mesh.min, v.pos),
                 !.max = vert_max(mesh.max, v.pos),
                 !.vertices = Append(mesh.vertices, v)]

map_insert(map, key, val) ==
    [t \in DOMAIN map \cup {key} |-> IF t = key THEN val ELSE map[t]]

\* add_index that never records the new vertex in the map.
add_index_no_insert(mesh, vtni, obj) ==
    IF vtni \in DOMAIN mesh.map
    THEN [mesh EXCEPT !.indices = Append(mesh.indices, mesh.map[vtni])]
    ELSE LET idx == Len(mesh.vertices)
             m == create_vertex(mesh, vtni, obj)
         IN  [m EXCEPT !.indices = Append(mesh.indices, idx)]

\* add_index taking the new index after the push instead of before it.
add_index_after_push(mesh, vtni, obj) ==
    IF vtni \in DOMAIN mesh.map
    THEN [mesh EXCEPT !.indices = Append(mesh.indices, mesh.map[vtni])]
    ELSE LET m == create_vertex(mesh, vtni, obj)
             idx == Len(m.vertices)
         IN  [m EXCEPT !.map = map_insert(mesh.map, vtni, idx),
                       !.indices = Append(mesh.indices, idx)]

\* add_index: a map hit appends the stored index; a miss creates the
\* vertex, records its index in the map and appends it.
add_index(mesh, vtni, obj) ==
    IF vtni \in DOMAIN mesh.map
    THEN [mesh EXCEPT !.indices = Append(mesh.indices, mesh.map[vtni])]
    ELSE LET idx == Len(mesh.vertices)
             m == create_vertex(mesh, vtni, obj)
         IN  [m EXCEPT !.map = map_insert(mesh.map, vtni, idx),
                       !.indices = Append(mesh.indices, idx)]

\* ----------------------------------------------------------- tangent pass

\* The tangent the Gram-Schmidt step stores; its floating-point value is
\* not modelled.
GeneratedTangent == Some(<<"tangent">>)

\* Lines 257-309 on a welded mesh: the triangle loop unwraps the texcoord of
\* every indexed vertex, the vertex loop unwraps every normal.
generate_tangents_pass(mesh) ==
    LET no_tex == \E i \in 1..Len(mesh.indices) :
                      ~is_some(mesh.vertices[mesh.indices[i] + 1].tex)
        no_normal == \E a \in 1..Len(mesh.vertices) :
                      ~is_some(mesh.vertices[a].normal)
    IN  [panic |-> no_tex \/ no_normal,
         mesh |-> [mesh EXCEPT !.vertices =
                      [a \in 1..Len(mesh.vertices) |->
                          [mesh.vertices[a] EXCEPT !.tangent = GeneratedTangent]]]]

\* ------------------------------------------------------------ serializer

\* get_index_size with strict comparisons.
get_index_size_strict(n) ==
    IF n < 255 THEN 1
    ELSE IF n < 65535 THEN 2
    ELSE 4

get_index_size(n) ==
    IF n <= 255 THEN 1
    ELSE IF n <= 65535 THEN 2
    ELSE 4

\* `as f32` of an f64: a value beyond the f32 range becomes an infinity;
\* the positions of the model are small integers, which f32 holds exactly.
PosInf == <<"inf", 1>>
NegInf == <<"inf", -1>>
as_f32(x) ==
    IF x = F64_MAX THEN PosInf
    ELSE IF x = F64_MIN THEN NegInf
    ELSE <<"finite", x>>

vert_as_f32(v) == <<as_f32(v[1]), as_f32(v[2]), as_f32(v[3])>>

\* `idx as u8`, `idx as u16`, `idx as u32`: the low bits of idx (the model's
\* indices are below 2^31, so the 4-byte cast keeps them).
cast_index(idx, index_size) ==
    CASE index_size = 1 -> idx % 256
      [] index_size = 2 -> idx % 65536
      [] index_size = 4 -> idx

\* GPUVertex::write_to: the position and which optional fields follow it,
\* with the record's length in bytes.
write_to(v) ==
    [pos |-> vert_as_f32(v.pos),
     normal |-> is_some(v.normal),
     tangent |-> is_some(v.tangent),
     tex |-> is_some(v.tex),
     bytes |-> 12 + (IF is_some(v.normal) THEN 4 ELSE 0)
                  + (IF is_some(v.tangent) THEN 4 ELSE 0)
                  + (IF is_some(v.tex) THEN 4 ELSE 0)]

\* The buffer convert_obj builds from a finished mesh, field by field.
serialize_mesh(mesh) ==
    LET index_size == get_index_size(Len(mesh.vertices)) IN
    [index_size |-> index_size,
     primitive |-> 1,
     has_pos2d |-> 0,
     has_pos3d |-> 1,
     has_color |-> 0,
     has_normal |-> IF is_some(mesh.format.normal) THEN 1 ELSE 0,
     has_tangent |-> IF is_some(mesh.format.tangent) THEN 1 ELSE 0,
     has_tex0 |-> IF is_some(mesh.format.tex0) THEN 1 ELSE 0,
     has_tex1 |-> 0,
     bbox_max |-> vert_as_f32(mesh.max),
     bbox_min |-> vert_as_f32(mesh.min),
     vertex_count |-> Len(mesh.vertices),
     index_count |-> Len(mesh.indices),
     vertex_block |-> [a \in 1..Len(mesh.vertices) |-> write_to(mesh.vertices[a])],
     index_block |-> [i \in 1..Len(mesh.indices) |->
                         cast_index(mesh.indices[i], index_size)]]

\* --------------------------------------------------- whole-object operators

\* The welding loop skipping a shape that is no triangle.
RECURSIVE weld_from_skipping(_, _, _)
weld_from_skipping(mesh, obj, i) ==
    IF i > Len(obj.geometry) THEN [panic |-> FALSE, mesh |-> mesh]
    ELSE IF obj.geometry[i].kind /= "Triangle" THEN weld_from_skipping(mesh, obj, i + 1)
    ELSE LET s == obj.geometry[i].v IN
         weld_from_skipping(
             add_index(add_index(add_index(mesh, s[1], obj), s[2], obj), s[3], obj),
             obj, i + 1)

\* The welding loop of Mesh::from_object from shape i on: three add_index
\* calls per triangle, a panic at the first shape that is no triangle.
RECURSIVE weld_from(_, _, _)
weld_from(mesh, obj, i) ==
    IF i > Len(obj.geometry) THEN [panic |-> FALSE, mesh |-> mesh]
    ELSE IF obj.geometry[i].kind /= "Triangle" THEN [panic |-> TRUE, mesh |-> mesh]
    ELSE LET s == obj.geometry[i].v IN
         weld_from(add_index(add_index(add_index(mesh, s[1], obj), s[2], obj),
                             s[3], obj),
                   obj, i + 1)

Mesh_from_object(obj, generate_tangents) ==
    LET format == VertexFieldOffsets_from_object(obj, generate_tangents)
        welded == weld_from(NewMesh(format), obj, 1)
        tangents == generate_tangents_pass(welded.mesh)
    IN  IF format.panic THEN [panic |-> TRUE, mesh |-> NewMesh(NoFormat)]
        ELSE IF welded.panic THEN [panic |-> TRUE, mesh |-> welded.mesh]
        ELSE IF generate_tangents THEN tangents
        ELSE welded

\* convert_obj: the object's bytes, or a panic that returns nothing.
convert_obj(obj, generate_tangents) ==
    LET built == Mesh_from_object(obj, generate_tangents) IN
    IF built.panic THEN [panic |-> TRUE, data |-> None]
    ELSE [panic |-> FALSE, data |-> Some(serialize_mesh(built.mesh))]

\* ------------------------------------------------------ normalized packer

\* A u32 is its 32 bits, bit 0 the lowest.
Word == [0..31 -> {0, 1}]
ZeroWord == [i \in 0..31 |-> 0]

RECURSIVE pow2(_)
pow2(n) == IF n = 0 THEN 1 ELSE 2 * pow2(n - 1)

\* The two's-complement bits of an integer of magnitude below 2^31.
bits_of(x) == [i \in 0..31 |-> IF i = 31 THEN (IF x < 0 THEN 1 ELSE 0)
                                ELSE (x \div pow2(i)) % 2]

\* `<<` on u32 drops the bits shifted out; `|` is bitwise.
shl(w, n) == [i \in 0..31 |-> IF i >= n THEN w[i - n] ELSE 0]
bit_or(a, b) == [i \in 0..31 |-> IF a[i] = 1 \/ b[i] = 1 THEN 1 ELSE 0]

\* f64::ceil of num / den, den > 0.
ceil_div(num, den) == -((-num) \div den)

\* `x as u32` of an integral f64. A value in range converts exactly. For a
\* negative value the cast saturates to 0 on a compiler that defines it and
\* is undefined on an older one, where the hardware conversion leaves the
\* low 32 bits of the integer.
as_u32(x) == IF x < 0 THEN {ZeroWord, bits_of(x)} ELSE {bits_of(x)}

\* pack_normalized(val, max) with val = k / PackDen: the words it may return.
\* There is no failing path.
pack_normalized(k, max) == as_u32(ceil_div(k * max, PackDen))

\* pack_i2_10_10_10 on the vector <<n[1], n[2], n[3]>> / PackDen.
pack_i2_10_10_10(n) ==
    {bit_or(bit_or(shl(x, 0), shl(y, 10)), shl(z, 20)) :
        x \in pack_normalized(n[1], 511),
        y \in pack_normalized(n[2], 511),
        z \in pack_normalized(n[3], 511)}

\* ------------------------------------------------------------------- state

VARIABLES
    pc,            \* where the run is
    gen_tangents,  \* the --gen_tangents flag
    geometry,      \* Spec: the shapes of the object being converted
    mesh,          \* Spec: the Mesh under construction
    cursor,        \* Spec: <<shape, corner>> of the next add_index call
    data,          \* Spec: the buffer convert_obj returns (an Option)
    doc,           \* SpecDoc: the shapes of each object of the parsed ObjSet
    outs,          \* SpecDoc: the Vec<Vec<u8>> of convert_obj_set
    file,          \* SpecDoc: the output file
    normal,        \* SpecPack: the vector handed to pack_i2_10_10_10, times PackDen
    packed,        \* SpecPack: the word it returned (an Option)
    vertex_count,  \* SpecWidth: mesh.vertices.len()
    index_size,    \* SpecWidth: the width written in the header
    index,         \* SpecWidth: an element of mesh.indices
    written        \* SpecWidth: the value the index block holds for it

objVars == <<geometry, mesh, cursor, data>>
docVars == <<doc, outs, file>>
packVars == <<normal, packed>>
widthVars == <<vertex_count, index_size, index, written>>
vars == <<pc, gen_tangents, objVars, docVars, packVars, widthVars>>

NoFile == [created |-> FALSE, content |-> None]

\* The object being converted: the fixed arrays and the run's shapes.
obj == Object(geometry)

\* The values of the variables a specification does not use.
ObjIdle ==
    /\ geometry = <<>>
    /\ mesh = NewMesh(NoFormat)
    /\ cursor = <<1, 1>>
    /\ data = None
DocIdle ==
    /\ doc = <<>>
    /\ outs = <<>>
    /\ file = NoFile
PackIdle ==
    /\ normal = <<0, 0, 0>>
    /\ packed = None
WidthIdle ==
    /\ vertex_count = 0
    /\ index_size = 0
    /\ index = 0
    /\ written = 0

\* ------------------------------------------------- Spec: one object's run

Init ==
    /\ pc = "start"
    /\ gen_tangents \in BOOLEAN
    /\ geometry \in SeqsUpTo(Shapes, MaxShapes)
    /\ mesh = NewMesh(NoFormat)
    /\ cursor = <<1, 1>>
    /\ data = None
    /\ DocIdle /\ PackIdle /\ WidthIdle

\* Mesh::from_object, lines 234-242: the layout and the empty mesh.
Negotiate ==
    /\ pc = "start"
    /\ LET format == VertexFieldOffsets_from_object(obj, gen_tangents) IN
       /\ ~format.panic
       /\ mesh' = NewMesh(format)
    /\ pc' = "weld"
    /\ UNCHANGED <<gen_tangents, geometry, cursor, data, docVars, packVars, widthVars>>

\* has_all meets a shape that is no triangle (line 83).
NegotiatePanic ==
    /\ pc = "start"
    /\ VertexFieldOffsets_from_object(obj, gen_tangents).panic
    /\ pc' = "panic"
    /\ UNCHANGED <<gen_tangents, objVars, docVars, packVars, widthVars>>

\* One add_index call of the welding loop (lines 248-250).
AddIndex ==
    /\ pc = "weld"
    /\ cursor[1] <= Len(geometry)
    /\ geometry[cursor[1]].kind = "Triangle"
    /\ mesh' = add_index(mesh, geometry[cursor[1]].v[cursor[2]], obj)
    /\ cursor' = IF cursor[2] < 3 THEN <<cursor[1], cursor[2] + 1>>
                 ELSE <<cursor[1] + 1, 1>>
    /\ UNCHANGED <<pc, gen_tangents, geometry, data, docVars, packVars, widthVars>>

\* The welding loop meets a shape that is no triangle (line 252).
UnsupportedPrimitive ==
    /\ pc = "weld"
    /\ cursor[1] <= Len(geometry)
    /\ geometry[cursor[1]].kind /= "Triangle"
    /\ pc' = "panic"
    /\ UNCHANGED <<gen_tangents, objVars, docVars, packVars, widthVars>>

\* The tangent pass (lines 257-309) runs to its end.
GenerateTangents ==
    /\ pc = "weld"
    /\ cursor[1] > Len(geometry)
    /\ gen_tangents
    /\ LET r == generate_tangents_pass(mesh) IN
       /\ ~r.panic
       /\ mesh' = r.mesh
    /\ pc' = "built"
    /\ UNCHANGED <<gen_tangents, geometry, cursor, data, docVars, packVars, widthVars>>

\* The tangent pass unwraps a texcoord or a normal that is None (lines
\* 272-274, 303).
TangentPanic ==
    /\ pc = "weld"
    /\ cursor[1] > Len(geometry)
    /\ gen_tangents
    /\ generate_tangents_pass(mesh).panic
    /\ pc' = "panic"
    /\ UNCHANGED <<gen_tangents, objVars, docVars, packVars, widthVars>>

\* No tangents were asked for: from_object returns the welded mesh.
ReturnMesh ==
    /\ pc = "weld"
    /\ cursor[1] > Len(geometry)
    /\ ~gen_tangents
    /\ pc' = "built"
    /\ UNCHANGED <<gen_tangents, objVars, docVars, packVars, widthVars>>

\* convert_obj after from_object (lines 352-393).
ConvertObj ==
    /\ pc = "built"
    /\ data' = Some(serialize_mesh(mesh))
    /\ pc' = "done"
    /\ UNCHANGED <<gen_tangents, geometry, mesh, cursor, docVars, packVars, widthVars>>

Next ==
    \/ Negotiate
    \/ NegotiatePanic
    \/ AddIndex
    \/ UnsupportedPrimitive
    \/ GenerateTangents
    \/ TangentPanic
    \/ ReturnMesh
    \/ ConvertObj

Spec == Init /\ [][Next]_vars

\* ---------------------------------------- SpecDoc: a document through main

\* The shapes of the documents' objects: a triangle whose corners supply
\* everything, one whose corners lack a normal and a texcoord, and a shape
\* that is no triangle.
FullTriangle ==
    Triangle(<<0, Some(0), Some(0)>>, <<0, Some(0), Some(0)>>, <<0, Some(0), Some(0)>>)
BareTriangle ==
    Triangle(<<1, Some(1), None>>, <<1, None, Some(0)>>, <<0, Some(0), Some(0)>>)
DocShapes == {FullTriangle, BareTriangle, OtherShape}

Documents == SeqsUpTo(SeqsUpTo(DocShapes, MaxShapes), MaxObjects)

DocInit ==
    /\ pc = "convert"
    /\ gen_tangents \in BOOLEAN
    /\ doc \in Documents
    /\ outs = <<>>
    /\ file = NoFile
    /\ ObjIdle /\ PackIdle /\ WidthIdle

\* One iteration of convert_obj_set's loop (lines 399-401): the next
\* object's bytes are pushed.
DocConvertObj ==
    /\ pc = "convert"
    /\ Len(outs) < Len(doc)
    /\ LET r == convert_obj(Object(doc[Len(outs) + 1]), gen_tangents) IN
       /\ ~r.panic
       /\ outs' = Append(outs, unwrap(r.data))
    /\ UNCHANGED <<pc, gen_tangents, doc, file, objVars, packVars, widthVars>>

\* convert_obj panics: nothing is pushed and the run is over.
DocConvertPanic ==
    /\ pc = "convert"
    /\ Len(outs) < Len(doc)
    /\ convert_obj(Object(doc[Len(outs) + 1]), gen_tangents).panic
    /\ pc' = "panic"
    /\ UNCHANGED <<gen_tangents, docVars, objVars, packVars, widthVars>>

\* main after convert_obj_set returned (lines 458-462): the file is created
\* and the first object's bytes are written.
DocWriteFile ==
    /\ pc = "convert"
    /\ Len(outs) = Len(doc)
    /\ Len(outs) > 0
    /\ file' = [created |-> TRUE, content |-> Some(outs[1])]
    /\ pc' = "done"
    /\ UNCHANGED <<gen_tangents, doc, outs, objVars, packVars, widthVars>>

\* A document without objects: File::create succeeds and data[0] panics.
DocWritePanic ==
    /\ pc = "convert"
    /\ Len(outs) = Len(doc)
    /\ Len(outs) = 0
    /\ file' = [created |-> TRUE, content |-> None]
    /\ pc' = "panic"
    /\ UNCHANGED <<gen_tangents, doc, outs, objVars, packVars, widthVars>>

DocNext ==
    \/ DocConvertObj
    \/ DocConvertPanic
    \/ DocWriteFile
    \/ DocWritePanic

SpecDoc == DocInit /\ [][DocNext]_vars

\* --------------------------------------------------- SpecPack: the packer

PackInit ==
    /\ pc = "pack"
    /\ gen_tangents = FALSE
    /\ normal \in (-PackNum..PackNum) \X (-PackNum..PackNum) \X (-PackNum..PackNum)
    /\ packed = None
    /\ ObjIdle /\ DocIdle /\ WidthIdle

\* write_to hands a normal (or a tangent) to pack_i2_10_10_10 and writes
\* the word (lines 149-155).
PackVector ==
    /\ pc = "pack"
    /\ \E w \in pack_i2_10_10_10(normal) : packed' = Some(w)
    /\ pc' = "packed"
    /\ UNCHANGED <<gen_tangents, normal, objVars, docVars, widthVars>>

PackNext == PackVector

SpecPack == PackInit /\ [][PackNext]_vars

\* ------------------------------------------------ SpecWidth: index widths

WidthInit ==
    /\ pc = "header"
    /\ gen_tangents = FALSE
    /\ vertex_count \in 0..MaxVertexCount
    /\ index_size = 0
    /\ index = 0
    /\ written = 0
    /\ ObjIdle /\ DocIdle /\ PackIdle

\* convert_obj writes the index size (lines 355-356).
WriteIndexSize ==
    /\ pc = "header"
    /\ index_size' = get_index_size(vertex_count)
    /\ pc' = "indices"
    /\ UNCHANGED <<gen_tangents, vertex_count, index, written, objVars, docVars, packVars>>

\* convert_obj writes an index (lines 384-391): the first or the last
\* vertex's.
WriteIndex ==
    /\ pc = "indices"
    /\ \E idx \in {0, vertex_count - 1} :
          /\ idx >= 0
          /\ index' = idx
          /\ written' = cast_index(idx, index_size)
    /\ pc' = "indexed"
    /\ UNCHANGED <<gen_tangents, vertex_count, index_size, objVars, docVars, packVars>>

WidthNext ==
    \/ WriteIndexSize
    \/ WriteIndex

SpecWidth == WidthInit /\ [][WidthNext]_vars

\* ------------------------------------------------------------------ claims

\* The corners add_index has been called with so far, in call order: the
\* three corners of every shape before the cursor and the corners of the
\* cursor's shape before the cursor's corner.
ProcessedCorners ==
    [n \in 1..(3 * (cursor[1] - 1) + (cursor[2] - 1)) |->
        geometry[((n - 1) \div 3) + 1].v[((n - 1) % 3) + 1]]

SeqRange(seq) == {seq[n] : n \in 1..Len(seq)}

\* The distinct elements of a sequence in order of first occurrence.
RECURSIVE first_occurrences(_)
first_occurrences(seq) ==
    IF seq = <<>> THEN <<>>
    ELSE LET front == first_occurrences(SubSeq(seq, 1, Len(seq) - 1))
             last == seq[Len(seq)]
         IN  IF last \in SeqRange(front) THEN front ELSE Append(front, last)

\* The layout has been computed (has_all did not panic and the run is past
\* the negotiation).
Negotiated ==
    /\ pc \in {"weld", "built", "done", "panic"}
    /\ ~VertexFieldOffsets_from_object(obj, gen_tangents).panic

\* Every corner of every triangle of the object supplies field k of its
\* tuple (2: texcoord index, 3: normal index).
AllCornersSupply(k) ==
    \A i \in 1..Len(geometry) :
        geometry[i].kind = "Triangle" =>
            \A c \in 1..3 : is_some(geometry[i].v[c][k])

\* C1. Welding correctness: after any number of add_index calls, two
\* corners got the same index exactly when their attribute tuples are
\* equal, the dedup map's keys are exactly the distinct tuples seen, and the
\* vertex list holds one vertex per distinct tuple.
WeldingCorrect ==
    LET seen == ProcessedCorners IN
    /\ Len(mesh.indices) = Len(seen)
    /\ \A i, j \in 1..Len(seen) :
          (mesh.indices[i] = mesh.indices[j]) <=> (seen[i] = seen[j])
    /\ DOMAIN mesh.map = SeqRange(seen)
    /\ Len(mesh.vertices) = Cardinality(SeqRange(seen))

\* A finished object in which a tuple repeats (a weld) and two distinct
\* tuples share a position (no weld).
WeldingWitness ==
    /\ pc = "done"
    /\ \E i, j \in 1..Len(mesh.indices) :
          /\ i /= j
          /\ ProcessedCorners[i] = ProcessedCorners[j]
          /\ mesh.indices[i] = mesh.indices[j]
    /\ \E i, j \in 1..Len(mesh.indices) :
          /\ ProcessedCorners[i] /= ProcessedCorners[j]
          /\ ProcessedCorners[i][1] = ProcessedCorners[j][1]
          /\ mesh.indices[i] /= mesh.indices[j]

\* C2. Index validity: after every add_index call and in the finished mesh,
\* every element of the index list and every value of the dedup map is a
\* valid index into the vertex list.
IndexValidity ==
    /\ \A i \in 1..Len(mesh.indices) :
          0 <= mesh.indices[i] /\ mesh.indices[i] < Len(mesh.vertices)
    /\ \A t \in DOMAIN mesh.map :
          0 <= mesh.map[t] /\ mesh.map[t] < Len(mesh.vertices)

\* In the middle of a triangle, after a map hit and after a new vertex.
IndexValidityWitness ==
    /\ pc = "weld"
    /\ cursor[2] = 2
    /\ Len(mesh.indices) = 4
    /\ Len(mesh.vertices) = 2
    /\ mesh.indices[4] = 1

\* C3. Ordering: the index list has one entry per processed corner, in
\* corner order (3 per triangle once the loop is over); slot k of the vertex
\* list holds the vertex of the k-th distinct tuple in order of first
\* occurrence, and the map sends that tuple to k.
OrderingFirstOccurrence ==
    LET seen == ProcessedCorners
        firsts == first_occurrences(seen)
    IN  /\ Len(mesh.indices) = Len(seen)
        /\ pc \in {"built", "done"} => Len(mesh.indices) = 3 * Len(geometry)
        /\ Len(mesh.vertices) = Len(firsts)
        /\ \A k \in 1..Len(firsts) :
              /\ [mesh.vertices[k] EXCEPT !.tangent = None]
                    = GPUVertex_from_vtni_and_obj(firsts[k], obj, mesh.format)
              /\ mesh.map[firsts[k]] = k - 1
        /\ \A n \in 1..Len(seen) : firsts[mesh.indices[n] + 1] = seen[n]

\* Two triangles welded into three vertices, the second triangle reusing a
\* vertex of the first.
OrderingWitness ==
    /\ pc = "done"
    /\ Len(mesh.indices) = 6
    /\ Len(mesh.vertices) = 3
    /\ mesh.indices[1] /= mesh.indices[2]
    /\ mesh.indices[4] = mesh.indices[1]
    /\ mesh.vertices[1].pos /= mesh.vertices[2].pos

\* C4. Layout all-or-nothing: the layout has a normal (texcoord) offset
\* exactly when every corner of every triangle supplies a normal (texcoord)
\* index, and no vertex carries an attribute the layout lacks.
LayoutAllOrNothing ==
    Negotiated =>
        /\ is_some(mesh.format.normal) <=> AllCornersSupply(3)
        /\ is_some(mesh.format.tex0) <=> AllCornersSupply(2)
        /\ \A a \in 1..Len(mesh.vertices) :
              /\ ~is_some(mesh.format.normal) => ~is_some(mesh.vertices[a].normal)
              /\ ~is_some(mesh.format.tex0) => ~is_some(mesh.vertices[a].tex)

\* A finished object in which one corner lacks the normal and another
\* supplies it: the layout has the texcoord only, and the vertex of the
\* corner that supplied a normal carries none.
LayoutWitness ==
    /\ pc = "done"
    /\ ~is_some(mesh.format.normal)
    /\ is_some(mesh.format.tex0)
    /\ \E n \in 1..Len(mesh.indices) :
          /\ is_some(ProcessedCorners[n][3])
          /\ ~is_some(mesh.vertices[mesh.indices[n] + 1].normal)
          /\ is_some(mesh.vertices[mesh.indices[n] + 1].tex)

\* C5. Zero-vertex bounds: for an object without vertices the bbox_max and
\* bbox_min convert_obj writes are not the accumulator's initial bounds.
ZeroVertexBoundsNotSentinel ==
    (pc = "done" /\ Len(mesh.vertices) = 0) =>
        /\ unwrap(data).bbox_max /= vert_as_f32(NewMesh(NoFormat).max)
        /\ unwrap(data).bbox_min /= vert_as_f32(NewMesh(NoFormat).min)

\* C7. Tangent requires texcoord: the layout has a tangent offset only if
\* it has a texcoord offset, and the tangent pass (which runs once the
\* welding loop is over) is never begun on a layout without texcoord.
TangentRequiresTexcoord ==
    Negotiated =>
        /\ is_some(mesh.format.tangent) => is_some(mesh.format.tex0)
        /\ ~(/\ pc = "panic"
             /\ cursor[1] > Len(geometry)
             /\ ~is_some(mesh.format.tex0))

\* C10. Bounding box: with at least one vertex, min and max are the
\* componentwise minimum and maximum of the positions of the vertices
\* created so far (so they do not move on a map hit, which creates none).
BoundingBoxCorrect ==
    Len(mesh.vertices) >= 1 =>
        \A axis \in 1..3 :
            LET coords == {mesh.vertices[a].pos[axis] : a \in 1..Len(mesh.vertices)} IN
            /\ mesh.min[axis] \in coords
            /\ mesh.max[axis] \in coords
            /\ \A x \in coords : mesh.min[axis] <= x /\ x <= mesh.max[axis]

\* Two vertices neither of which is the minimum or the maximum corner of
\* the box, reached after a map hit.
BoundingBoxWitness ==
    /\ pc = "weld"
    /\ Len(mesh.vertices) = 2
    /\ Len(mesh.indices) > Len(mesh.vertices)
    /\ \A a \in 1..2 : mesh.vertices[a].pos /= mesh.min
    /\ \A a \in 1..2 : mesh.vertices[a].pos /= mesh.max

\* Some object of the document holds a shape that is no triangle.
ObjectHasNonTriangle(o) == \E s \in 1..Len(doc[o]) : doc[o][s].kind /= "Triangle"
DocHasNonTriangle == \E o \in 1..Len(doc) : ObjectHasNonTriangle(o)

\* C8. A non-triangle anywhere in the document: the run never completes,
\* the output file is never created or written, and no buffer is returned
\* for the offending object or any after it.
NonTriangleNoOutput ==
    DocHasNonTriangle =>
        /\ pc /= "done"
        /\ file = NoFile
        /\ \A o \in 1..Len(doc) : ObjectHasNonTriangle(o) => Len(outs) < o

\* The first object converted, the second panicked in the welding loop on a
\* non-triangle that follows a triangle lacking normal and texcoord.
NonTriangleWitness ==
    /\ pc = "panic"
    /\ Len(doc) = 2
    /\ Len(outs) = 1
    /\ doc[2] = <<BareTriangle, OtherShape>>
    /\ file = NoFile

\* C9. Out-of-range rejection: a word is packed only from a vector whose
\* components all lie in [-1, 1].
PackRejectsOutOfRange ==
    pc = "packed" =>
        \A c \in 1..3 : -PackDen <= normal[c] /\ normal[c] <= PackDen

\* The narrowest of the widths 1, 2, 4 that can hold index m.
narrowest_width(m) ==
    IF m <= 255 THEN 1
    ELSE IF m <= 65535 THEN 2
    ELSE 4

\* C6 as stated: the header's width is the narrowest that can represent
\* vertex_count - 1.
IndexWidthNarrowest ==
    pc \in {"indices", "indexed"} => index_size = narrowest_width(vertex_count - 1)

\* C6 as amended: the width is 1 byte up to 255 vertices, 2 bytes up to
\* 65535 vertices and 4 bytes beyond; it can always represent
\* vertex_count - 1, and every index is written unchanged in it.
IndexWidthByVertexCount ==
    /\ pc \in {"indices", "indexed"} =>
          /\ vertex_count <= 255 => index_size = 1
          /\ (256 <= vertex_count /\ vertex_count <= 65535) => index_size = 2
          /\ vertex_count >= 65536 => index_size = 4
          /\ index_size = 1 => vertex_count - 1 <= 255
          /\ index_size = 2 => vertex_count - 1 <= 65535
    /\ pc = "indexed" => written = index

\* 256 vertices: the last index, 255, is written in 2 bytes.
IndexWidthWitness ==
    /\ pc = "indexed"
    /\ vertex_count = 256
    /\ index = 255
    /\ index_size = 2
    /\ written = 255

====
